---------------------------- MODULE Spec2Model ----------------------------
(* goproxy: a TCP/UDP proxy whose backend list is re-resolved from DNS.    *)
(* The model follows the multi-target program (refreshDns, manageTcp,      *)
(* forwardTcp, manageUdp, forwardUdp and the channel set-up in main).      *)
(* Strings are sequences of ASCII codes so that sort.Strings,              *)
(* net.JoinHostPort, net.SplitHostPort and dns.Fqdn are computed.          *)
EXTENDS Integers, Sequences, FiniteSets, TLC

(***************************************************************************)
(* Bounds of the exploration                                               *)
(***************************************************************************)
MaxPolls == 2
MaxConns == 3
MaxDatagrams == 2

(***************************************************************************)
(* Strings                                                                 *)
(***************************************************************************)
DOT == <<46>>
COLON == <<58>>
Digit(d) == <<48 + d>>
IPv4(a, b, c, d) == Digit(a) \o DOT \o Digit(b) \o DOT \o Digit(c) \o DOT \o Digit(d)

IsDigit(ch) == ch >= 48 /\ ch <= 57

\* byte-wise lexicographic order of Go strings (s < t)
RECURSIVE StrLess(_, _)
StrLess(s, t) ==
    IF t = <<>> THEN FALSE
    ELSE IF s = <<>> THEN TRUE
    ELSE IF Head(s) /= Head(t) THEN Head(s) < Head(t)
    ELSE StrLess(Tail(s), Tail(t))

RECURSIVE Insert(_, _)
Insert(x, sorted) ==
    IF sorted = <<>> THEN <<x>>
    ELSE IF StrLess(x, Head(sorted)) THEN <<x>> \o sorted
    ELSE <<Head(sorted)>> \o Insert(x, Tail(sorted))

\* sort.Strings: the ascending permutation of the slice
RECURSIVE SortStrings(_)
SortStrings(l) ==
    IF l = <<>> THEN <<>> ELSE Insert(Head(l), SortStrings(Tail(l)))

\* index of the last ':' of s, 0 when there is none
RECURSIVE LastColon(_)
LastColon(s) ==
    IF s = <<>> THEN 0
    ELSE IF s[Len(s)] = COLON[1] THEN Len(s)
    ELSE LastColon(SubSeq(s, 1, Len(s) - 1))

\* net.SplitHostPort for addresses without brackets: host, port, err
SplitHostPort(s) ==
    LET k == LastColon(s) IN
    IF k = 0 THEN [host |-> <<>>, port |-> <<>>, err |-> TRUE]
    ELSE [host |-> SubSeq(s, 1, k - 1), port |-> SubSeq(s, k + 1, Len(s)), err |-> FALSE]

\* net.JoinHostPort for hosts without ':' (IPv4 addresses and names)
JoinHostPort(host, port) == host \o COLON \o port

\* dns.Fqdn: the name with a trailing dot
Fqdn(s) == IF s /= <<>> /\ s[Len(s)] = DOT[1] THEN s ELSE s \o DOT

\* number of '.' in s
RECURSIVE Dots(_)
Dots(s) == IF s = <<>> THEN 0 ELSE (IF Head(s) = DOT[1] THEN 1 ELSE 0) + Dots(Tail(s))

\* net.ParseIP(host) /= nil, for dotted IPv4 literals
ParseIP(s) ==
    /\ s /= <<>>
    /\ \A k \in 1..Len(s) : IsDigit(s[k]) \/ s[k] = DOT[1]
    /\ Dots(s) = 3
    /\ IsDigit(s[1]) /\ IsDigit(s[Len(s)])
    /\ \A k \in 1..(Len(s) - 1) : ~(s[k] = DOT[1] /\ s[k + 1] = DOT[1])


(***************************************************************************)
(* Configurations (command line) and the DNS answers considered            *)
(***************************************************************************)
Port8 == Digit(8)
Port9 == Digit(9)
NameA == <<97>>
NameS == <<115>>
NameT1 == <<116, 49, 46>>
NameT2 == <<116, 50, 46>>
IP1 == IPv4(1, 1, 1, 1)
IP2 == IPv4(1, 1, 1, 2)
IP9 == IPv4(9, 9, 9, 9)

\* flags.Args()[1:], -srv, -dns, -udp
Config(args, srvFlag, dnsFlag, udpFlag) ==
    [connectTo |-> args, srv |-> srvFlag, dnsServer |-> dnsFlag, udp |-> udpFlag]

TargetArgs ==
    { <<JoinHostPort(IP2, Port8), JoinHostPort(IP1, Port8)>>,
      <<JoinHostPort(NameA, Port8)>>,
      <<JoinHostPort(IP9, Port8), JoinHostPort(NameA, Port9)>>,
      <<JoinHostPort(<<>>, Port8), JoinHostPort(IP1, Port8)>> }

Configs(udpFlag) ==
    { Config(a, FALSE, d, udpFlag) : a \in TargetArgs, d \in BOOLEAN }
    \cup { Config(<<NameS>>, TRUE, TRUE, udpFlag) }

RR(type, host, port) == [type |-> type, host |-> host, port |-> port]

AAnswers ==
    { <<>>,
      <<RR("A", IP1, <<>>)>>,
      <<RR("A", IP2, <<>>)>>,
      <<RR("A", IP1, <<>>), RR("A", IP2, <<>>)>>,
      <<RR("A", IP2, <<>>), RR("A", IP1, <<>>)>>,
      <<RR("CNAME", NameT1, <<>>), RR("A", IP1, <<>>)>> }

SrvAnswers ==
    { <<>>,
      <<RR("SRV", NameT1, Port8)>>,
      <<RR("SRV", NameT1, Port8), RR("SRV", NameT2, Port9)>>,
      <<RR("SRV", NameT2, Port9), RR("SRV", NameT1, Port8)>> }

\* what dnsClient.Exchange returns: a transport error, or a message with an
\* Id (that of the request or another one) and an answer section
Response(err, id, answer) == [err |-> err, id |-> id, answer |-> answer]

Responses(answers) ==
    { Response(TRUE, "req", <<>>) }
    \cup { Response(FALSE, "other", a) : a \in { b \in answers : Len(b) = 1 } }
    \cup { Response(FALSE, "req", a) : a \in answers }

AResponses == Responses(AAnswers)
SrvResponses == Responses(SrvAnswers)

MaxSrvLen == CHOOSE n \in 0..4 : /\ \A a \in SrvAnswers : Len(a) <= n
                                 /\ \E a \in SrvAnswers : Len(a) = n

MaxALen == CHOOSE n \in 0..4 : /\ \A a \in AAnswers : Len(a) <= n
                               /\ \E a \in AAnswers : Len(a) = n

(***************************************************************************)
(* Resolver: queryDns and refreshDns                                       *)
(***************************************************************************)
HostPort(host, port, resolve) == [host |-> host, port |-> port, resolve |-> resolve]

RECURSIVE Records(_, _)
Records(answer, qType) ==
    IF answer = <<>> THEN <<>>
    ELSE LET r == Head(answer) IN
         (IF r.type = qType
          THEN <<HostPort(r.host, IF qType = "A" THEN <<>> ELSE r.port, FALSE)>>
          ELSE <<>>) \o Records(Tail(answer), qType)

\* queryDns(dnsClient, name, qType), given the reply of the exchange
queryDns(resp, qType) ==
    IF resp.err THEN <<>>
    ELSE IF resp.id /= "req" THEN <<>>
    ELSE Records(resp.answer, qType)

\* the loop of refreshDns that parses connectTo into targets
ParseTarget(target, srvFlag) ==
    LET hp == IF srvFlag THEN [host |-> target, port |-> <<>>, err |-> FALSE]
              ELSE SplitHostPort(target)
        resolve == hp.host /= <<>> /\ ~ParseIP(hp.host)
    IN HostPort(IF hp.host /= <<>> THEN Fqdn(hp.host) ELSE hp.host, hp.port, resolve)

ParseTargets(args, srvFlag) == [k \in 1..Len(args) |-> ParseTarget(args[k], srvFlag)]

noDnsRequired(tgts) == \A k \in 1..Len(tgts) : ~tgts[k].resolve

\* the addresses of ips joined with one port, in the order of ips
RECURSIVE JoinAll(_, _)
JoinAll(ips, port) ==
    IF ips = <<>> THEN <<>>
    ELSE <<JoinHostPort(Head(ips).host, port)>> \o JoinAll(Tail(ips), port)

Slot(k, j) == (k - 1) * MaxSrvLen + j

SrvContributionMutant(srvTargets, k, j, aResp) ==
    IF j > Len(srvTargets) THEN <<>>
    ELSE JoinAll(queryDns(aResp[Slot(k, j)], "A"), srvTargets[j].port)

\* the SRV branch: for each SRV record of the answer, in order, the A records
\* of its target joined with the port of that SRV record
RECURSIVE SrvContribution(_, _, _, _)
SrvContribution(srvTargets, k, j, aResp) ==
    IF j > Len(srvTargets) THEN <<>>
    ELSE JoinAll(queryDns(aResp[Slot(k, j)], "A"), srvTargets[j].port)
         \o SrvContribution(srvTargets, k, j + 1, aResp)

\* what one target of the list appends to newTargets
Contribution(tgts, k, srvFlag, srvResp, aResp) ==
    IF ~tgts[k].resolve THEN <<JoinHostPort(tgts[k].host, tgts[k].port)>>
    ELSE IF srvFlag
         THEN SrvContribution(queryDns(srvResp[k], "SRV"), k, 1, aResp)
         ELSE JoinAll(queryDns(aResp[k], "A"), tgts[k].port)

\* newTargets as appended by the loop over targets, before sort.Strings
RECURSIVE Concatenation(_, _, _, _, _)
Concatenation(tgts, k, srvFlag, srvResp, aResp) ==
    IF k > Len(tgts) THEN <<>>
    ELSE Contribution(tgts, k, srvFlag, srvResp, aResp)
         \o Concatenation(tgts, k + 1, srvFlag, srvResp, aResp)

SortedTargetsMutant(newTargets) == newTargets

\* newTargets after sort.Strings(newTargets), which sorts the slice in place
SortedTargets(newTargets) == SortStrings(newTargets)

updateMutant(old, new) == TRUE

\* the update flag: lengths differ or some element differs
update(old, new) ==
    \/ Len(old) /= Len(new)
    \/ \E k \in 1..Len(new) : old[k] /= new[k]


(***************************************************************************)
(* State                                                                   *)
(***************************************************************************)
VARIABLES
    cfg,              \* the command line
    rpc,              \* where the refreshDns goroutine is
    targets,          \* refreshDns: targets
    resolvedTargets,  \* refreshDns: resolvedTargets
    newTargets,       \* queryDns closure: newTargets, while blocked in the send
    polls,            \* number of runs of the queryDns closure so far
    poll,             \* the last run of the closure: replies, lists, verdict
    resolver,         \* main: channel resolver
    manager,          \* main: channel manager
    connectTo,        \* manageTcp: connectTo
    i,                \* manageTcp / manageUdp: i
    accepted,         \* per accepted connection: emissions made before it was queued
    inbound,          \* per accepted connection: "open" or "closed"
    sessions,         \* forwardTcp goroutines, by inbound connection
    sent,             \* lists sent on resolver, in order
    received,         \* lists received from resolver, in order
    handled,          \* what the dispatcher did per connection event, in order
    in,               \* manageUdp: in
    out,              \* manageUdp: out
    socks,            \* backend sockets dialed by manageUdp, in order
    forwarders,       \* forwardUdp goroutines, in order of start
    events,           \* closes, dials and starts made by manageUdp, in order
    io,               \* the kinds of read and write the forwardUdp goroutines made
    datagrams         \* number of datagrams read from the client socket so far

vars == <<cfg, rpc, targets, resolvedTargets, newTargets, polls, poll, resolver,
          manager, connectTo, i, accepted, inbound, sessions, sent, received, handled,
          in, out, socks, forwarders, events, io, datagrams>>

resolverVars == <<rpc, targets, resolvedTargets, newTargets, polls, poll>>
udpVars == <<in, out, socks, forwarders, events, io, datagrams>>
tcpVars == <<connectTo, accepted, inbound, sessions, handled>>
dispatchVars == <<i, tcpVars, udpVars>>

ResolverCapMutant == 1 + 1

\* make(chan []string, 1) and make(chan net.Conn, 10)
ResolverCap == 1
ManagerCap == 10

\* nil for in, the socket of net.ListenUDP, and nil for out (backend sockets
\* are numbered from 1 in the order they are dialed)
Nil == "nil"
ClientSocket == "client"
NoSocket == 0

NoReplies == [srv |-> <<>>, a |-> <<>>]

NoPoll == [ran |-> FALSE, failed |-> FALSE, concat |-> <<>>, sorted |-> <<>>,
           old |-> <<>>, update |-> FALSE, replies |-> NoReplies]

\* main, up to the start of the dispatcher: the channels are made and, when no
\* DNS server is given, connectTo is put on resolver; otherwise refreshDns starts;
\* in UDP mode the listening socket is put on manager
InitWith(configs) ==
    /\ cfg \in configs
    /\ rpc = IF cfg.dnsServer THEN "start" ELSE "off"
    /\ targets = <<>>
    /\ resolvedTargets = <<>>
    /\ newTargets = <<>>
    /\ polls = 0
    /\ poll = NoPoll
    /\ resolver = IF cfg.dnsServer THEN <<>> ELSE <<cfg.connectTo>>
    /\ sent = IF cfg.dnsServer THEN <<>> ELSE <<cfg.connectTo>>
    /\ manager = IF cfg.udp THEN <<ClientSocket>> ELSE <<>>
    /\ connectTo = <<>>
    /\ i = 0
    /\ accepted = <<>>
    /\ inbound = <<>>
    /\ sessions = <<>>
    /\ received = <<>>
    /\ handled = <<>>
    /\ in = Nil
    /\ out = NoSocket
    /\ socks = <<>>
    /\ forwarders = <<>>
    /\ events = <<>>
    /\ io = {}
    /\ datagrams = 0


(***************************************************************************)
(* refreshDns                                                              *)
(***************************************************************************)
\* refreshDns up to its first send or first poll
RefreshStart ==
    /\ rpc = "start"
    /\ targets' = ParseTargets(cfg.connectTo, cfg.srv)
    /\ rpc' = IF noDnsRequired(targets') THEN "static" ELSE "poll"
    /\ UNCHANGED <<cfg, resolvedTargets, newTargets, polls, poll, resolver, manager,
                   sent, received>>
    /\ UNCHANGED dispatchVars

SendStaticMutant ==
    /\ rpc = "static"
    /\ Len(resolver) < ResolverCap
    /\ resolver' = Append(resolver, cfg.connectTo)
    /\ sent' = Append(sent, cfg.connectTo)
    /\ rpc' = "poll"
    /\ UNCHANGED <<cfg, targets, resolvedTargets, newTargets, polls, poll, manager,
                   received>>
    /\ UNCHANGED dispatchVars

\* dnsUpdates <- connectTo; return
SendStatic ==
    /\ rpc = "static"
    /\ Len(resolver) < ResolverCap
    /\ resolver' = Append(resolver, cfg.connectTo)
    /\ sent' = Append(sent, cfg.connectTo)
    /\ rpc' = "done"
    /\ UNCHANGED <<cfg, targets, resolvedTargets, newTargets, polls, poll, manager,
                   received>>
    /\ UNCHANGED dispatchVars

QueryFailed(resp) == resp.err \/ resp.id /= "req"

\* the queries one run of the closure makes: some query of it failed
SomeQueryFailed(tgts, srvFlag, srvResp, aResp) ==
    \E k \in 1..Len(tgts) :
        /\ tgts[k].resolve
        /\ IF srvFlag
           THEN \/ QueryFailed(srvResp[k])
                \/ \E j \in 1..Len(queryDns(srvResp[k], "SRV")) :
                       QueryFailed(aResp[Slot(k, j)])
           ELSE QueryFailed(aResp[k])

\* the A queries one run of the closure makes, as indices of aResp: one per
\* resolving target, in SRV mode one per SRV record of its answer
AQueries(tgts, srvFlag, srvResp) ==
    IF srvFlag
    THEN { s \in 1..(Len(tgts) * MaxSrvLen) :
             \E k \in 1..Len(tgts), j \in 1..MaxSrvLen :
                 /\ s = Slot(k, j)
                 /\ tgts[k].resolve
                 /\ j <= Len(queryDns(srvResp[k], "SRV")) }
    ELSE { k \in 1..Len(tgts) : tgts[k].resolve }

\* the place of a reply to a query that is not made
NoQuery == Response(TRUE, "req", <<>>)

\* one run of the queryDns closure (the first one, or one on a tick), up to the
\* send on dnsUpdates. traced: whether the replies of the DNS server are kept
\* in poll for the properties that speak of them
PollWith(traced) ==
    /\ rpc = "poll"
    /\ polls < MaxPolls
    /\ \E srvResp \in [1..(IF cfg.srv THEN Len(targets) ELSE 0) -> SrvResponses],
          aResp \in [1..(IF cfg.srv THEN Len(targets) * MaxSrvLen ELSE Len(targets))
                     -> AResponses] :
          /\ \A k \in DOMAIN srvResp : ~targets[k].resolve => srvResp[k] = NoQuery
          /\ \A s \in DOMAIN aResp :
                 s \notin AQueries(targets, cfg.srv, srvResp) => aResp[s] = NoQuery
          /\ LET concat == Concatenation(targets, 1, cfg.srv, srvResp, aResp)
                 sorted == SortedTargets(concat)
                 upd == update(resolvedTargets, sorted)
             IN /\ poll' = [ran |-> TRUE,
                            failed |-> SomeQueryFailed(targets, cfg.srv, srvResp, aResp),
                            concat |-> concat, sorted |-> sorted,
                            old |-> resolvedTargets, update |-> upd,
                            replies |-> IF traced THEN [srv |-> srvResp, a |-> aResp]
                                        ELSE NoReplies]
                /\ newTargets' = IF upd THEN sorted ELSE <<>>
                /\ rpc' = IF upd THEN "send" ELSE "poll"
    /\ polls' = polls + 1
    /\ UNCHANGED <<cfg, targets, resolvedTargets, resolver, manager, sent, received>>
    /\ UNCHANGED dispatchVars

Poll == PollWith(FALSE)

PollTraced == PollWith(TRUE)

\* dnsUpdates <- newTargets; resolvedTargets = newTargets
Send ==
    /\ rpc = "send"
    /\ Len(resolver) < ResolverCap
    /\ resolver' = Append(resolver, newTargets)
    /\ sent' = Append(sent, newTargets)
    /\ resolvedTargets' = newTargets
    /\ newTargets' = <<>>
    /\ rpc' = "poll"
    /\ UNCHANGED <<cfg, targets, polls, poll, manager, received>>
    /\ UNCHANGED dispatchVars

(***************************************************************************)
(* main's accept loop and manageTcp                                        *)
(***************************************************************************)
\* listener.Accept(); manager <- conn
Accept ==
    /\ Len(accepted) < MaxConns
    /\ Len(manager) < ManagerCap
    /\ manager' = Append(manager, Len(accepted) + 1)
    /\ accepted' = Append(accepted, Len(sent))
    /\ inbound' = Append(inbound, "open")
    /\ UNCHANGED <<cfg, resolver, connectTo, i, sessions, sent, received, handled>>
    /\ UNCHANGED resolverVars
    /\ UNCHANGED udpVars

TcpUpdateMutant ==
    /\ resolver /= <<>>
    /\ connectTo' = connectTo
    /\ resolver' = Tail(resolver)
    /\ received' = Append(received, Head(resolver))
    /\ UNCHANGED <<cfg, manager, i, accepted, inbound, sessions, sent, handled>>
    /\ UNCHANGED resolverVars
    /\ UNCHANGED udpVars

TcpUpdateResetMutant ==
    /\ resolver /= <<>>
    /\ connectTo' = Head(resolver)
    /\ resolver' = Tail(resolver)
    /\ received' = Append(received, Head(resolver))
    /\ i' = 0
    /\ UNCHANGED <<cfg, manager, accepted, inbound, sessions, sent, handled>>
    /\ UNCHANGED resolverVars
    /\ UNCHANGED udpVars

\* case connectTo = <-resolver
TcpUpdate ==
    /\ resolver /= <<>>
    /\ connectTo' = Head(resolver)
    /\ resolver' = Tail(resolver)
    /\ received' = Append(received, Head(resolver))
    /\ UNCHANGED <<cfg, manager, i, accepted, inbound, sessions, sent, handled>>
    /\ UNCHANGED resolverVars
    /\ UNCHANGED udpVars

NewSession(target) == [st |-> "dial", target |-> target, fwd |-> "none",
                       in2out |-> "idle", out2in |-> "idle"]

PickMutant(cursor, list) == ((cursor + 1) % Len(list)) + 1

\* the index manageTcp uses: i % uint(len(connectTo)), as a 1-based position.
\* i is a uint that only grows by one per dispatch; the runs explored keep it
\* far below the point where it wraps
Pick(cursor, list) == (cursor % Len(list)) + 1

DispatchMutant(cursor, list) ==
    IF Len(list) > 0
    THEN [fwd |-> TRUE, target |-> list[Pick(cursor, list)], after |-> cursor + 1]
    ELSE [fwd |-> FALSE, target |-> <<>>, after |-> cursor + 1]

\* the body of the connection case: forward to connectTo[i % len] and i++, or
\* close the connection when connectTo is empty
Dispatch(cursor, list) ==
    IF Len(list) > 0
    THEN [fwd |-> TRUE, target |-> list[Pick(cursor, list)], after |-> cursor + 1]
    ELSE [fwd |-> FALSE, target |-> <<>>, after |-> cursor]

\* case in := <-connections
TcpConnection ==
    /\ manager /= <<>>
    /\ LET c == Head(manager)
           d == Dispatch(i, connectTo)
       IN /\ manager' = Tail(manager)
          /\ i' = d.after
          /\ IF d.fwd
             THEN /\ sessions' = (c :> NewSession(d.target)) @@ sessions
                  /\ inbound' = inbound
             ELSE /\ inbound' = [inbound EXCEPT ![c] = "closed"]
                  /\ sessions' = sessions
          /\ handled' = Append(handled,
                 [conn |-> c, fwd |-> d.fwd, target |-> d.target, list |-> connectTo,
                  before |-> i, after |-> d.after, updates |-> Len(received)])
    /\ UNCHANGED <<cfg, resolver, connectTo, accepted, sent, received>>
    /\ UNCHANGED resolverVars
    /\ UNCHANGED udpVars

(***************************************************************************)
(* forwardTcp                                                              *)
(***************************************************************************)
TcpDialMutant(c) ==
    /\ c \in DOMAIN sessions
    /\ sessions[c].st = "dial"
    /\ \E ok \in BOOLEAN :
        IF ok
        THEN /\ sessions' = [sessions EXCEPT ![c].st = "relay", ![c].fwd = "open",
                                             ![c].in2out = "copy", ![c].out2in = "copy"]
             /\ inbound' = inbound
        ELSE /\ sessions' = [sessions EXCEPT ![c].st = "failed"]
             /\ inbound' = inbound
    /\ UNCHANGED <<cfg, resolver, manager, connectTo, i, accepted, sent, received, handled>>
    /\ UNCHANGED resolverVars
    /\ UNCHANGED udpVars

\* net.DialTimeout: on error the inbound connection is closed and the
\* goroutine returns; otherwise the two relay goroutines are started
TcpDial(c) ==
    /\ c \in DOMAIN sessions
    /\ sessions[c].st = "dial"
    /\ \E ok \in BOOLEAN :
        IF ok
        THEN /\ sessions' = [sessions EXCEPT ![c].st = "relay", ![c].fwd = "open",
                                             ![c].in2out = "copy", ![c].out2in = "copy"]
             /\ inbound' = inbound
        ELSE /\ sessions' = [sessions EXCEPT ![c].st = "failed"]
             /\ inbound' = [inbound EXCEPT ![c] = "closed"]
    /\ UNCHANGED <<cfg, resolver, manager, connectTo, i, accepted, sent, received, handled>>
    /\ UNCHANGED resolverVars
    /\ UNCHANGED udpVars

Relays == {"in2out", "out2in"}

\* io.Copy of one relay goroutine returns: end of stream or an error on either
\* endpoint, among them the endpoint having been closed
CopyReturns(c, r) ==
    /\ c \in DOMAIN sessions
    /\ sessions[c][r] = "copy"
    /\ sessions' = [sessions EXCEPT ![c][r] = "closeFwd"]
    /\ UNCHANGED <<cfg, resolver, manager, connectTo, i, accepted, inbound, sent,
                   received, handled>>
    /\ UNCHANGED resolverVars
    /\ UNCHANGED udpVars

\* the copy is on an endpoint that has been closed
CopyOnClosed(c, r) ==
    /\ c \in DOMAIN sessions
    /\ sessions[c].fwd = "closed" \/ inbound[c] = "closed"
    /\ CopyReturns(c, r)

\* deferred close(): fwd.Close()
CloseFwd(c, r) ==
    /\ c \in DOMAIN sessions
    /\ sessions[c][r] = "closeFwd"
    /\ sessions' = [sessions EXCEPT ![c][r] = "closeConn", ![c].fwd = "closed"]
    /\ UNCHANGED <<cfg, resolver, manager, connectTo, i, accepted, inbound, sent,
                   received, handled>>
    /\ UNCHANGED resolverVars
    /\ UNCHANGED udpVars

CloseConnMutant(c, r) ==
    /\ c \in DOMAIN sessions
    /\ sessions[c][r] = "closeConn"
    /\ sessions' = [sessions EXCEPT ![c][r] = "done"]
    /\ UNCHANGED <<cfg, resolver, manager, connectTo, i, accepted, inbound, sent,
                   received, handled>>
    /\ UNCHANGED resolverVars
    /\ UNCHANGED udpVars

\* deferred close(): conn.Close(), after which the goroutine is finished
CloseConn(c, r) ==
    /\ c \in DOMAIN sessions
    /\ sessions[c][r] = "closeConn"
    /\ sessions' = [sessions EXCEPT ![c][r] = "done"]
    /\ inbound' = [inbound EXCEPT ![c] = "closed"]
    /\ UNCHANGED <<cfg, resolver, manager, connectTo, i, accepted, sent, received,
                   handled>>
    /\ UNCHANGED resolverVars
    /\ UNCHANGED udpVars

(***************************************************************************)
(* manageUdp and forwardUdp                                                *)
(***************************************************************************)
Socket(addr) == [addr |-> addr, open |-> TRUE, closes |-> 0]
ForwarderMutant(from, to) == [from |-> to, to |-> from, pc |-> "copy", err |-> "none"]

\* go forwardUdp(from, to): the goroutine, about to call io.Copy(to, from)
Forwarder(from, to) == [from |-> from, to |-> to, pc |-> "copy", err |-> "none"]

\* which socket a net.Conn of manageUdp is: the one of net.ListenUDP, or one
\* of those of net.Dial
SocketKind(conn) == IF ToString(conn) = ToString(ClientSocket) THEN "client" ELSE "backend"

\* a Read or a Write on a socket, as io.Copy makes them
IO(op, conn) == [op |-> op, on |-> SocketKind(conn)]
Event(op, sock) == [op |-> op, sock |-> sock]

\* out.Close() on the sockets: one more close of socket o
CloseSocket(ss, o) == [ss EXCEPT ![o].open = FALSE, ![o].closes = @ + 1]

RebindMutant(o, ss, list, cursor, ok, client) ==
    LET dial == Len(list) > 0
        made == dial /\ ok
        id == Len(ss) + 1
    IN [out |-> IF made THEN id ELSE NoSocket,
        socks |-> IF made THEN Append(ss, Socket(list[Pick(cursor, list)])) ELSE ss,
        i |-> IF dial THEN cursor + 1 ELSE cursor,
        spawn |-> made /\ client /= Nil,
        events |-> (IF dial THEN <<Event("dial", IF made THEN id ELSE NoSocket)>> ELSE <<>>)
                   \o (IF made /\ client /= Nil THEN <<Event("go", id)>> ELSE <<>>)]

RebindDialMutant(o, ss, list, cursor, ok, client) ==
    LET closed == IF o /= NoSocket THEN CloseSocket(ss, o) ELSE ss
        dial == Len(list) > 0
        made == dial /\ ok
        id == Len(ss) + 1
    IN [out |-> IF made THEN id ELSE NoSocket,
        socks |-> IF made THEN Append(closed, Socket(list[Pick(cursor, list)])) ELSE closed,
        i |-> IF made THEN cursor + 1 ELSE cursor,
        spawn |-> made /\ client /= Nil,
        events |-> (IF o /= NoSocket THEN <<Event("close", o)>> ELSE <<>>)
                   \o (IF dial THEN <<Event("dial", IF made THEN id ELSE NoSocket)>> ELSE <<>>)
                   \o (IF made /\ client /= Nil THEN <<Event("go", id)>> ELSE <<>>)]

\* the body of the update case of manageUdp: close and clear out; when the
\* list is not empty dial connectTo[i % len], i++, and on success set out and
\* start a forwarder if in is known. ok: whether net.Dial succeeds
Rebind(o, ss, list, cursor, ok, client) ==
    LET closed == IF o /= NoSocket THEN CloseSocket(ss, o) ELSE ss
        dial == Len(list) > 0
        made == dial /\ ok
        id == Len(ss) + 1
    IN [out |-> IF made THEN id ELSE NoSocket,
        socks |-> IF made THEN Append(closed, Socket(list[Pick(cursor, list)])) ELSE closed,
        i |-> IF dial THEN cursor + 1 ELSE cursor,
        spawn |-> made /\ client /= Nil,
        events |-> (IF o /= NoSocket THEN <<Event("close", o)>> ELSE <<>>)
                   \o (IF dial THEN <<Event("dial", IF made THEN id ELSE NoSocket)>> ELSE <<>>)
                   \o (IF made /\ client /= Nil THEN <<Event("go", id)>> ELSE <<>>)]

\* case connectTo := <-resolver
UdpUpdate ==
    /\ resolver /= <<>>
    /\ \E ok \in BOOLEAN :
          LET r == Rebind(out, socks, Head(resolver), i, ok, in)
          IN /\ out' = r.out
             /\ socks' = r.socks
             /\ i' = r.i
             /\ events' = events \o r.events
             /\ forwarders' = IF r.spawn THEN Append(forwarders, Forwarder(in, r.out))
                              ELSE forwarders
    /\ resolver' = Tail(resolver)
    /\ received' = Append(received, Head(resolver))
    /\ UNCHANGED <<cfg, manager, sent, in, io, datagrams>>
    /\ UNCHANGED resolverVars
    /\ UNCHANGED tcpVars

UdpConnectionMutant ==
    /\ manager /= <<>>
    /\ in' = Head(manager)
    /\ manager' = Tail(manager)
    /\ UNCHANGED <<forwarders, events>>
    /\ UNCHANGED <<cfg, resolver, sent, received, i, out, socks, io, datagrams>>
    /\ UNCHANGED resolverVars
    /\ UNCHANGED tcpVars

\* case _in := <-connections
UdpConnection ==
    /\ manager /= <<>>
    /\ in' = Head(manager)
    /\ manager' = Tail(manager)
    /\ IF out /= NoSocket
       THEN /\ forwarders' = Append(forwarders, Forwarder(in', out))
            /\ events' = Append(events, Event("go", out))
       ELSE UNCHANGED <<forwarders, events>>
    /\ UNCHANGED <<cfg, resolver, sent, received, i, out, socks, io, datagrams>>
    /\ UNCHANGED resolverVars
    /\ UNCHANGED tcpVars

Live(f) == forwarders[f].pc /= "done"

\* what io.Copy returns with: "closed" stands for an error whose text holds
\* "closed network connection", "other" for any other error. While it returns
\* with nothing ("none" here) the copy goes on
CopyErrors == {"closed", "other"}

AfterCopyMutant(err) == "done"

\* the loop of forwardUdp once io.Copy has returned err: break when the text
\* of err holds "closed network connection", otherwise sleep
AfterCopy(err) == IF err = "closed" THEN "done" ELSE "sleep"

\* forwardUdp, one datagram: io.Copy reads it from `from` and writes it to `to`.
\* The write to a closed socket fails with "use of closed network connection";
\* the write to an open one goes through, or fails with another error
FwdDatagram(f) ==
    /\ f \in 1..Len(forwarders)
    /\ forwarders[f].pc = "copy"
    /\ datagrams < MaxDatagrams
    /\ datagrams' = datagrams + 1
    /\ io' = io \cup {IO("read", forwarders[f].from), IO("write", forwarders[f].to)}
    /\ \E err \in CopyErrors \cup {"none"} :
          /\ (err = "closed") = ~socks[forwarders[f].to].open
          /\ forwarders' = [forwarders EXCEPT
                               ![f].err = err,
                               ![f].pc = IF err = "none" THEN "copy" ELSE AfterCopy(err)]
    /\ UNCHANGED <<cfg, resolver, manager, sent, received, i, in, out, socks, events>>
    /\ UNCHANGED resolverVars
    /\ UNCHANGED tcpVars

\* time.Sleep(1 * time.Second) is over: the copy is started again
FwdWake(f) ==
    /\ f \in 1..Len(forwarders)
    /\ forwarders[f].pc = "sleep"
    /\ forwarders' = [forwarders EXCEPT ![f].pc = "copy", ![f].err = "none"]
    /\ UNCHANGED <<cfg, resolver, manager, sent, received, i, in, out, socks, events,
                   io, datagrams>>
    /\ UNCHANGED resolverVars
    /\ UNCHANGED tcpVars

(***************************************************************************)
(* Specifications                                                          *)
(***************************************************************************)
\* TCP mode, resolver and dispatcher: a static list, and a name polled in A mode
DispatchConfigs ==
    { Config(<<JoinHostPort(IP2, Port8), JoinHostPort(IP1, Port8)>>, FALSE, FALSE, FALSE),
      Config(<<JoinHostPort(NameA, Port8)>>, FALSE, TRUE, FALSE) }

Init == InitWith(DispatchConfigs)

Next ==
    \/ RefreshStart
    \/ Poll
    \/ Send
    \/ Accept
    \/ TcpUpdate
    \/ TcpConnection

Spec == Init /\ [][Next]_vars

\* the resolver under every configuration, with the dispatcher consuming its updates
InitResolver == InitWith(Configs(FALSE))

NextResolver ==
    \/ RefreshStart
    \/ SendStatic
    \/ Poll
    \/ Send
    \/ TcpUpdate

SpecResolver == InitResolver /\ [][NextResolver]_vars

\* the resolver in SRV mode, the replies of each poll kept
SrvConfigs == { Config(<<NameS>>, TRUE, TRUE, FALSE) }

InitSrv == InitWith(SrvConfigs)

NextSrv ==
    \/ RefreshStart
    \/ PollTraced
    \/ Send
    \/ TcpUpdate

SpecSrv == InitSrv /\ [][NextSrv]_vars


\* TCP mode with a static list: dispatcher and sessions
SessionConfigs ==
    { Config(<<JoinHostPort(IP2, Port8), JoinHostPort(IP1, Port8)>>, FALSE, FALSE, FALSE) }

InitSession == InitWith(SessionConfigs)

NextSession ==
    \/ Accept
    \/ TcpUpdate
    \/ TcpConnection
    \/ \E c \in 1..MaxConns : TcpDial(c)
    \/ \E c \in 1..MaxConns, r \in Relays : CopyReturns(c, r)
    \/ \E c \in 1..MaxConns, r \in Relays : CloseFwd(c, r)
    \/ \E c \in 1..MaxConns, r \in Relays : CloseConn(c, r)

SpecSession == InitSession /\ [][NextSession]_vars

\* a relay goroutine that can take a step of its teardown takes it: a copy on a
\* closed endpoint returns, a deferred close runs
Teardown ==
    \E c \in 1..MaxConns, r \in Relays :
        CopyOnClosed(c, r) \/ CloseFwd(c, r) \/ CloseConn(c, r)

FairSession == SpecSession /\ WF_vars(Teardown)

\* UDP mode: a static list, and a name polled in A mode
UdpConfigs ==
    { Config(<<JoinHostPort(IP2, Port8), JoinHostPort(IP1, Port8)>>, FALSE, FALSE, TRUE),
      Config(<<JoinHostPort(NameA, Port8)>>, FALSE, TRUE, TRUE) }

InitUdp == InitWith(UdpConfigs)

NextUdp ==
    \/ RefreshStart
    \/ Poll
    \/ Send
    \/ UdpUpdate
    \/ UdpConnection
    \/ \E f \in 1..(MaxPolls + 1) : FwdDatagram(f)
    \/ \E f \in 1..(MaxPolls + 1) : FwdWake(f)

SpecUdp == InitUdp /\ [][NextUdp]_vars

\* what the Go scheduler and the runtime's timers see to: a goroutine that can
\* run does. manageUdp takes a case of its select that is ready, refreshDns goes
\* on to its send, a sleeping forwardUdp wakes up. That a datagram arrives on
\* the listening socket is up to the clients, and nothing sees to it
FairUdp ==
    /\ SpecUdp
    /\ WF_vars(UdpUpdate \/ UdpConnection)
    /\ WF_vars(RefreshStart \/ Send)
    /\ WF_vars(\E f \in 1..(MaxPolls + 1) : FwdWake(f))

(***************************************************************************)
(* Properties                                                              *)
(***************************************************************************)
Forwarded == SelectSeq(handled, LAMBDA h : h.fwd)

\* l is in ascending byte-wise order
IsAscending(l) == \A k \in 1..(Len(l) - 1) : ~StrLess(l[k + 1], l[k])

Count(x, l) == Cardinality({k \in 1..Len(l) : l[k] = x})

\* l and m hold the same strings the same number of times
SameBag(l, m) ==
    /\ Len(l) = Len(m)
    /\ \A k \in 1..Len(l) : Count(l[k], l) = Count(l[k], m)

\* C1: while every update the dispatcher has consumed is the same non-empty
\* list L, the n-th connection handed to a forwarder (from 0) gets L[n mod k]
C1_RoundRobin ==
    \A n \in 1..Len(Forwarded) :
        (\A u \in 1..Forwarded[n].updates : received[u] = received[1])
        => Forwarded[n].target = received[1][((n - 1) % Len(received[1])) + 1]

C1_Witness ==
    /\ Len(Forwarded) >= 3
    /\ Len(received[1]) = 2
    /\ \A u \in 1..Len(received) : received[u] = received[1]
    /\ Forwarded[3].target = received[1][1]
    /\ Forwarded[2].target = received[1][2]

\* C2: a connection handled while connectTo is empty is closed, gets no
\* forwarder (so nothing ever dials for it) and leaves the cursor alone
C2_NoTargetSafety ==
    \A n \in 1..Len(handled) :
        handled[n].list = <<>>
        => /\ ~handled[n].fwd
           /\ handled[n].after = handled[n].before
           /\ inbound[handled[n].conn] = "closed"
           /\ handled[n].conn \notin DOMAIN sessions

C2_Witness ==
    /\ \E n \in 1..Len(handled) : handled[n].list = <<>> /\ handled[n].updates = 0
    /\ \E n \in 1..Len(handled) :
           /\ handled[n].list = <<>>
           /\ handled[n].updates >= 2
           /\ handled[n].before >= 1

\* C3: a run of the poll in which a DNS query failed emits nothing
C3_FailedQueryNoChange == poll.failed => ~poll.update

\* C4 as stated: the list being emitted is the concatenation in resolution order
C4_EmitsConcatenation == rpc = "send" => newTargets = poll.concat

\* C4: a poll that detects a change emits the sorted concatenation (ascending, the
\* same strings), saves that very list as the signature, and the dispatcher
\* uses it as received
C4_EmitsSorted ==
    /\ rpc = "send" => IsAscending(newTargets) /\ SameBag(newTargets, poll.concat)
    /\ poll.ran => \A n \in 1..Len(sent) : IsAscending(sent[n])
    /\ poll.ran /\ rpc = "poll" /\ sent /= <<>> => resolvedTargets = sent[Len(sent)]
    /\ poll.ran => IsAscending(connectTo)

C4_Witness ==
    /\ received /= <<>>
    /\ connectTo = poll.sorted
    /\ poll.update
    /\ poll.concat /= poll.sorted
    /\ Len(connectTo) >= 2

\* C5: a poll whose addresses are those of the saved list, in any order, emits
\* nothing; two consecutive emissions never hold the same strings
C5_ChangeDetection ==
    /\ poll.ran /\ SameBag(poll.concat, poll.old) => ~poll.update /\ rpc /= "send"
    /\ \A n \in 1..(Len(sent) - 1) : ~SameBag(sent[n], sent[n + 1])

C5_Witness ==
    /\ poll.ran
    /\ ~poll.update
    /\ poll.old /= <<>>
    /\ poll.concat /= poll.old
    /\ SameBag(poll.concat, poll.old)

\* C6: the lists received are those sent, in order, each once; at most one
\* list waits in the channel
C6_Handoff ==
    /\ received \o resolver = sent
    /\ Len(resolver) <= 1

C6_Witness ==
    /\ rpc = "send"
    /\ Len(resolver) = ResolverCap
    /\ newTargets /= resolver[1]
    /\ sent = resolver

\* C7 as stated: every list put on resolver before a connection was put on
\* manager has been applied when that connection is handled
C7_ArrivalOrder ==
    \A n \in 1..Len(handled) : handled[n].updates >= accepted[handled[n].conn]

\* C7: connections are handled in the order accepted, each against the last
\* list consumed so far (none: closed), whatever waits on resolver
C7_PerSourceOrder ==
    \A n \in 1..Len(handled) :
        /\ handled[n].conn = n
        /\ handled[n].list =
              IF handled[n].updates = 0 THEN <<>> ELSE received[handled[n].updates]
        /\ handled[n].fwd = (handled[n].list /= <<>>)
        /\ n > 1 => handled[n].updates >= handled[n - 1].updates

C7_Witness ==
    \E n \in 1..Len(handled) :
        /\ n >= 2
        /\ handled[n].fwd
        /\ accepted[n] >= 1
        /\ handled[n].updates > handled[n - 1].updates
        /\ handled[n].updates < Len(sent)

Relaying(c) == c \in DOMAIN sessions /\ sessions[c].st = "relay"
RelayDone(c, r) == Relaying(c) /\ sessions[c][r] = "done"
BothClosed(c) == Relaying(c) /\ sessions[c].fwd = "closed" /\ inbound[c] = "closed"
Lopsided(c) == Relaying(c) /\ ((sessions[c].fwd = "closed") /= (inbound[c] = "closed"))

Settled(c) ==
    /\ ~Lopsided(c)
    /\ (\E r \in Relays : RelayDone(c, r)) => (\A r \in Relays : RelayDone(c, r))

\* C8: once a relay goroutine of a dialed session is finished both endpoints
\* are closed; a session with one relay finished and the other not, or with one
\* endpoint closed and the other open, gets to both finished and both closed
C8_PairedTeardown ==
    /\ [](\A c \in 1..MaxConns, r \in Relays : RelayDone(c, r) => BothClosed(c))
    /\ \A c \in 1..MaxConns : (~Settled(c)) ~> Settled(c)

C8_Witness ==
    \E c \in 1..MaxConns :
        /\ RelayDone(c, "out2in")
        /\ sessions[c]["in2out"] = "copy"
        /\ BothClosed(c)

OpenSocks == {k \in 1..Len(socks) : socks[k].open}

\* the position in events of the close of socket k, 0 when it was not closed
ClosedAt(k) ==
    IF \E p \in 1..Len(events) : events[p] = Event("close", k)
    THEN CHOOSE p \in 1..Len(events) : events[p] = Event("close", k)
    ELSE 0

\* C9: at most one backend socket is open, and it is out; a socket is closed
\* by manageUdp once, when the next update arrives and before that update
\* dials; no socket is closed twice
C9_UdpRebinding ==
    /\ Cardinality(OpenSocks) <= 1
    /\ OpenSocks = IF out = NoSocket THEN {} ELSE {out}
    /\ \A k \in 1..Len(socks) :
          /\ socks[k].closes = Cardinality({p \in 1..Len(events) : events[p] = Event("close", k)})
          /\ socks[k].closes = IF k = out THEN 0 ELSE 1
    /\ \A p \in 1..Len(events) :
          events[p].op = "dial" /\ events[p].sock /= NoSocket
          => \A k \in 1..(events[p].sock - 1) : ClosedAt(k) > 0 /\ ClosedAt(k) < p

C9_Witness ==
    /\ Len(socks) >= 2
    /\ out = 2
    /\ socks[1].closes = 1
    /\ Len(forwarders) >= 2

LiveForwarders == {f \in 1..Len(forwarders) : Live(f)}

\* C10 as stated: at most one forwarder is started and not yet terminated
C10_OneLiveForwarder == Cardinality(LiveForwarders) <= 1

\* C10: at most one live forwarder writes to an open backend socket, the
\* current out; the other live forwarders hold a socket manageUdp has closed
C10_OneCurrentForwarder ==
    /\ Cardinality({f \in LiveForwarders : socks[forwarders[f].to].open}) <= 1
    /\ \A f \in LiveForwarders : socks[forwarders[f].to].open => forwarders[f].to = out
    /\ \A f, g \in 1..Len(forwarders) : forwarders[f].to = forwarders[g].to => f = g

C10_Witness ==
    /\ Cardinality(LiveForwarders) >= 2
    /\ \E f \in LiveForwarders : forwarders[f].to = out
    /\ \E f \in LiveForwarders : ~socks[forwarders[f].to].open

DialFailed(c) == c \in DOMAIN sessions /\ sessions[c].st = "failed"

\* C11: a session whose dial failed has its inbound connection closed, no
\* backend connection and no relay goroutine, and stays as it is (no second
\* dial, no other target); the step in which a dial ends, failed or not,
\* leaves connectTo and the cursor alone and keeps the session's target
C11_DialFailure ==
    /\ [](\A c \in 1..MaxConns :
            DialFailed(c) => /\ inbound[c] = "closed"
                             /\ sessions[c].fwd = "none"
                             /\ \A r \in Relays : sessions[c][r] = "idle")
    /\ [][\A c \in 1..MaxConns :
            /\ DialFailed(c) => sessions'[c] = sessions[c]
            /\ c \in DOMAIN sessions /\ sessions[c].st = "dial" /\ sessions'[c].st /= "dial"
               => /\ connectTo' = connectTo
                  /\ i' = i
                  /\ handled' = handled
                  /\ sessions'[c].target = sessions[c].target]_vars

C11_Witness ==
    /\ DialFailed(1)
    /\ Relaying(2)
    /\ sessions[1].target = connectTo[1]
    /\ sessions[2].target = connectTo[2]
    /\ i = 2

\* the SRV records of the reply to the SRV query of spec k, and the A records
\* of the reply to the A query for the j-th of them, in the last poll
SrvRecordsOf(k) == SelectSeq(poll.replies.srv[k].answer, LAMBDA r : r.type = "SRV")
ARecordsOf(k, j) == SelectSeq(poll.replies.a[Slot(k, j)].answer, LAMBDA r : r.type = "A")

\* host:port for the a-th address of the j-th SRV record of spec k
SrvAddress(k, j, a) == ARecordsOf(k, j)[a].host \o COLON \o SrvRecordsOf(k)[j].port

SrvAddresses ==
    { <<k, j, a>> \in (1..Len(targets)) \X (1..MaxSrvLen) \X (1..MaxALen) :
          j <= Len(SrvRecordsOf(k)) /\ a <= Len(ARecordsOf(k, j)) }

\* C12: in SRV mode, when every query of a poll was answered, the poll's list
\* holds exactly the addresses of the SRV targets that have A records, each
\* with the port of its own SRV record; a target without A records, or a
\* spec without SRV records, adds nothing and takes nothing away. With two SRV
\* records the first of which has no address, the list is the addresses of the
\* second, in order
C12_PartialSrv ==
    poll.ran /\ cfg.srv /\ ~poll.failed
    => /\ \A t \in SrvAddresses : Count(SrvAddress(t[1], t[2], t[3]), poll.concat) >= 1
       /\ \A n \in 1..Len(poll.concat) :
             \E t \in SrvAddresses : poll.concat[n] = SrvAddress(t[1], t[2], t[3])
       /\ Len(poll.concat) = Cardinality(SrvAddresses)
       /\ SameBag(poll.sorted, poll.concat)
       /\ rpc = "send" => newTargets = poll.sorted
       /\ \A k \in 1..Len(targets) :
             Len(SrvRecordsOf(k)) = 2 /\ ARecordsOf(k, 1) = <<>> /\ Len(targets) = 1
             => poll.concat = [a \in 1..Len(ARecordsOf(k, 2)) |-> SrvAddress(k, 2, a)]

C12_Witness ==
    /\ poll.ran /\ cfg.srv /\ ~poll.failed
    /\ Len(SrvRecordsOf(1)) = 2
    /\ ARecordsOf(1, 1) = <<>>
    /\ Len(ARecordsOf(1, 2)) = 2
    /\ SrvRecordsOf(1)[2].port = Port8
    /\ received /= <<>>
    /\ connectTo = poll.sorted
    /\ Len(connectTo) = 2

\* every configured target has a literal IP or an empty host
AllStatic ==
    /\ ~cfg.srv
    /\ \A k \in 1..Len(cfg.connectTo) :
          LET host == SplitHostPort(cfg.connectTo[k]).host
          IN host = <<>> \/ ParseIP(host)

\* C13: when every target is a literal IP or has an empty host, the one list
\* ever sent on resolver is the configured list, the closure never runs (no
\* query, no ticker) and refreshDns, if started, ends after its send
C13_StaticOnce ==
    AllStatic
    => /\ polls = 0 /\ ~poll.ran
       /\ rpc \in {"off", "start", "static", "done"}
       /\ sent = IF rpc \in {"off", "done"} THEN <<cfg.connectTo>> ELSE <<>>
       /\ received \o resolver = sent

C13_Witness ==
    /\ AllStatic
    /\ rpc = "done"
    /\ SplitHostPort(cfg.connectTo[1]).host = <<>>
    /\ received = <<cfg.connectTo>>
    /\ connectTo = cfg.connectTo

\* C14: every forwardUdp goroutine has the listening socket as from and a
\* dialed socket as to, and every read made so far was on the listening
\* socket and every write on a dialed socket
C14_Unidirectional ==
    /\ \A f \in 1..Len(forwarders) :
          /\ SocketKind(forwarders[f].from) = "client"
          /\ SocketKind(forwarders[f].to) = "backend"
          /\ ToString(forwarders[f].to) \in {ToString(k) : k \in 1..Len(socks)}
    /\ io \subseteq {[op |-> "read", on |-> "client"], [op |-> "write", on |-> "backend"]}

C14_Witness ==
    /\ Len(forwarders) >= 2
    /\ datagrams >= 2
    /\ \E f \in 1..Len(forwarders) : forwarders[f].pc = "done"
    /\ io = {[op |-> "read", on |-> "client"], [op |-> "write", on |-> "backend"]}

NonEmptyUpdates == {n \in 1..Len(received) : received[n] /= <<>>}
Dials == {p \in 1..Len(events) : events[p].op = "dial"}

\* C15 as stated: the cursor of manageUdp is the number of updates consumed
C15_CursorPerUpdate == i = Len(received)

\* C15: the cursor of manageUdp is the number of non-empty updates consumed,
\* which is the number of dials made, failed ones included; an empty update
\* and every other event leave it as it is
C15_CursorPerDial ==
    /\ i = Cardinality(NonEmptyUpdates)
    /\ i = Cardinality(Dials)

C15_Witness ==
    /\ i = 1
    /\ Len(received) = 2
    /\ received[2] = <<>>
    /\ events = <<Event("dial", NoSocket)>>
    /\ in /= Nil
    /\ datagrams = 0

\* C16: connectTo is the last list received, whole; the cursor is the number
\* of connections handed to a forwarder, each connection event starting from
\* the cursor the previous one left, whatever updates came between; a
\* forwarded connection gets the target at (cursor mod length) of the list
\* current then
C16_UpdateFrame ==
    /\ connectTo = IF received = <<>> THEN <<>> ELSE received[Len(received)]
    /\ i = Len(Forwarded)
    /\ \A n \in 1..Len(handled) :
          /\ handled[n].before = IF n = 1 THEN 0 ELSE handled[n - 1].after
          /\ handled[n].after = handled[n].before + (IF handled[n].fwd THEN 1 ELSE 0)
          /\ handled[n].fwd
             => handled[n].target =
                   handled[n].list[(handled[n].before % Len(handled[n].list)) + 1]
    /\ Len(handled) > 0 => i = handled[Len(handled)].after

C16_Witness ==
    \E n \in 2..Len(handled) :
        /\ handled[n].fwd
        /\ handled[n].updates > handled[n - 1].updates
        /\ handled[n].list /= handled[n - 1].list
        /\ Len(handled[n].list) = 2
        /\ handled[n].before = 1
        /\ handled[n].target = handled[n].list[2]
        /\ connectTo = handled[n].list

\* forwarder f was started for a socket that manageUdp has closed since
Stale(f) == f <= Len(forwarders) /\ ~socks[forwarders[f].to].open

Terminated(f) == f <= Len(forwarders) /\ forwarders[f].pc = "done"

\* C17: a forwarder whose backend socket has been closed by manageUdp
\* terminates in the end (in a run that does not use up the datagrams
\* explored)
C17_StaleTerminates ==
    \A f \in 1..(MaxPolls + 1) :
        Stale(f) ~> (Terminated(f) \/ datagrams = MaxDatagrams)

\* the k-th configured target has a literal IP or an empty host
IsLiteral(k) ==
    /\ ~cfg.srv
    /\ LET host == SplitHostPort(cfg.connectTo[k]).host
       IN host = <<>> \/ ParseIP(host)

\* C18: in every list a poll emits, each literal target is there as the
\* configured string, and where it was configured: first when configured
\* first, last when configured last
C18_LiteralPassThrough ==
    poll.ran
    => \A n \in 1..Len(sent), k \in 1..Len(cfg.connectTo) :
          IsLiteral(k)
          => /\ Count(cfg.connectTo[k], sent[n]) >= 1
             /\ k = 1 => sent[n][1] = cfg.connectTo[k]
             /\ k = Len(cfg.connectTo) => sent[n][Len(sent[n])] = cfg.connectTo[k]

\* C19: a forwarder has terminated exactly when its copy returned the error
\* of a closed socket, which the write to a closed backend socket gives; after
\* another error it sleeps and can always wake up into the copy again, on the
\* two sockets it was started with; a finished forwarder stays finished, and
\* no step of a forwarder closes a socket
C19_ForwarderErrors ==
    /\ [](\A f \in 1..Len(forwarders) :
            /\ (forwarders[f].pc = "done") = (forwarders[f].err = "closed")
            /\ forwarders[f].err = "closed" => ~socks[forwarders[f].to].open
            /\ (forwarders[f].pc = "sleep") = (forwarders[f].err = "other")
            /\ forwarders[f].pc = "sleep" => ENABLED FwdWake(f))
    /\ [][\A f \in 1..Len(forwarders) :
            /\ forwarders'[f].from = forwarders[f].from
            /\ forwarders'[f].to = forwarders[f].to
            /\ forwarders[f].pc = "done" => forwarders'[f].pc = "done"
            /\ forwarders[f].pc = "sleep" => forwarders'[f].pc \in {"sleep", "copy"}
            /\ forwarders'[f] /= forwarders[f] => socks' = socks /\ in' = in]_vars

C19_Witness ==
    /\ \E f \in 1..Len(forwarders) :
          forwarders[f].pc = "done" /\ forwarders[f].err = "closed"
    /\ \E f \in 1..Len(forwarders) :
          /\ forwarders[f].pc = "sleep"
          /\ forwarders[f].err = "other"
          /\ socks[forwarders[f].to].open

\* the forwarders started for backend socket k
StartedFor(k) == {f \in 1..Len(forwarders) : forwarders[f].to = k}

\* C20: no forwarder is started before the listening socket is known, nor for
\* anything but a dialed socket, nor twice for one socket; once the listening
\* socket is known the current backend socket has its forwarder, whichever
\* came first, and the only sockets without one are those closed before the
\* listening socket was known
C20_StartOrder ==
    /\ in = Nil => forwarders = <<>>
    /\ \A f \in 1..Len(forwarders) : forwarders[f].to \in 1..Len(socks)
    /\ \A k \in 1..Len(socks) : Cardinality(StartedFor(k)) <= 1
    /\ in /= Nil /\ out /= NoSocket => Cardinality(StartedFor(out)) = 1
    /\ in /= Nil
       => \A k \in 1..Len(socks) :
             StartedFor(k) = {}
             => ~socks[k].open /\ \A f \in 1..Len(forwarders) : forwarders[f].to > k
    /\ Len(forwarders) = Cardinality({p \in 1..Len(events) : events[p].op = "go"})

C20_Witness ==
    /\ in /= Nil
    /\ Len(socks) = 2
    /\ StartedFor(1) = {}
    /\ StartedFor(2) = {1}
    /\ out = 2
    /\ resolver = <<>>

=============================================================================
